---- MODULE Spec2Model ----
(***************************************************************************)
(* Version detection of crates/core/src/version_detector.rs as a state     *)
(* machine.  One call of detect_version runs against a process             *)
(* environment, a configuration hierarchy and a file system seen through   *)
(* the tool's ecosystem probe.  Every step of the call is one action; a    *)
(* log records each configuration lookup, each probe and each write of the *)
(* provenance marker, in the order the code performs them.                 *)
(*                                                                         *)
(* Checksum verification of crates/schema-plugin/src/verify.rs is a second *)
(* state machine over its own variables: one call of verify_checksum       *)
(* hashes the downloaded file, opens the manifest and scans it line by     *)
(* line.  Building the checksum URL (get_checksum_url) is a third one, and  *)
(* two detect_version calls that interleave in one process are a fourth.   *)
(* Each operation has its own specification; the variables of the          *)
(* operations that are not running stay as they are.                       *)
(***************************************************************************)
EXTENDS Integers, Sequences, FiniteSets, TLC

\* Longest configuration hierarchy (number of ConfigFile entries) explored.
MaxFiles == 2

\* Longest checksum manifest (number of lines) explored.
MaxLines == 2

\* Most reads of the manifest a scan is followed for.
MaxPolls == 4

\* Longest checksum URL template (number of tokens and characters) explored.
MaxTemplate == 2

-----------------------------------------------------------------------------
(* Values *)

None == [tag |-> "None"]
Some(v) == [tag |-> "Some", val |-> v]
Ok(v) == [tag |-> "Ok", val |-> v]
Err(e) == [tag |-> "Err", val |-> e]
Pending == [tag |-> "Pending"]

\* An UnresolvedVersionSpec value.
V(major, minor) == [major |-> major, minor |-> minor]

\* The tool a call resolves: Tool.id, Tool::get_name, Tool::get_env_var_prefix.
tool == [id |-> "node", name |-> "Node.js", env_var_prefix |-> "PROTO_NODE"]

\* Another tool id that configuration files may pin.
OtherId == "deno"

PROTO_CONFIG_NAME == ".prototools"

\* Name of the process-wide provenance marker.
DetectedVar == "PROTO_DETECTED_FROM"

\* format!("{}_VERSION", tool.get_env_var_prefix())
VersionVar(t) == t.env_var_prefix \o "_VERSION"

-----------------------------------------------------------------------------
(* Inputs: process environment, configuration hierarchy, file system *)

\* Directory names from the file system root downwards.
DirNames == <<"home", "work", "repo", "app", "pkg">>

\* Directory of the i-th nearest source of a hierarchy of n sources: the
\* first source is the working directory, the last one the outermost ancestor.
DirOf(i, n) == SubSeq(DirNames, 1, n - i + 1)

\* Path::parent
Parent(path) == SubSeq(path, 1, Len(path) - 1)

\* The versions table of a config: Option<map from tool id to version>.
NoVersions == None
VersionsOf(id, v) == Some([k \in {id} |-> v])

\* What source i may pin: no versions table, a table pinning only another
\* tool, or a table pinning this tool.
ConfigChoices(i) ==
    { NoVersions, VersionsOf(OtherId, V(i, 5)), VersionsOf(tool.id, V(i, 0)) }

\* ConfigFile { path, config }
ConfigFile(i, n, versions) ==
    [path |-> DirOf(i, n) \o <<PROTO_CONFIG_NAME>>, config |-> [versions |-> versions]]

\* What the ecosystem probe yields at the directory of source i.
ProbeChoices(i, n) ==
    { Ok(None),
      Ok(Some([version |-> V(i, 1), file |-> DirOf(i, n) \o <<".nvmrc">>])),
      Err([kind |-> "Probe", dir |-> DirOf(i, n)]) }

\* Values of an environment variable as std::env::var reports them.
NotPresent == [tag |-> "NotPresent"]
NotUnicode == [tag |-> "NotUnicode"]
Str(s) == [tag |-> "Str", val |-> s]

EnvStrings == {"", "1.0", "2.1", "not-a-version!!"}
EnvChoices == {NotPresent, NotUnicode} \cup {Str(s) : s \in EnvStrings}

\* A marker left by an earlier resolution of the process.
StalePath == <<"old", PROTO_CONFIG_NAME>>
MarkerChoices == {NotPresent, Str(StalePath)}

ForcedChoices == {None, Some(V(1, 0)), Some(V(9, 9))}

FirstAvailable == "FirstAvailable"
PreferPrototools == "PreferPrototools"
OnlyPrototools == "OnlyPrototools"
DetectStrategy == {FirstAvailable, PreferPrototools, OnlyPrototools}

-----------------------------------------------------------------------------
(* State *)

VARIABLES
    forced_version,   \* the override argument of the call
    env,              \* the process environment: variable name -> value
    eco,              \* the file system as the probe sees it: directory -> outcome
    manager,          \* what tool.proto.load_config_manager() returns
    settings,         \* what tool.proto.load_config() returns: the detect_strategy
    pc,               \* position of the call
    stack,            \* functions being executed, innermost last
    idx,              \* position of the innermost `for file in files` loop
    detected,         \* detected_version of detect_version
    result,           \* what detect_version returned
    log,              \* environment reads, lookups, probes and marker writes, in order
    env0              \* the environment when the call began

\* State of a verify_checksum call.
VARIABLES
    download_file,    \* path of the downloaded file
    checksum_file,    \* path of the checksum manifest
    disk,             \* what the two paths hold
    fail_at,          \* line before which reading the manifest fails, 0 for none
    vpc,              \* position of the call
    checksum,         \* the computed digest
    pos,              \* next line of the manifest the reader will return
    polls,            \* calls of Lines::next made by the loop
    vresult           \* what verify_checksum returned

verify_vars == <<download_file, checksum_file, disk, fail_at, vpc, checksum,
                 pos, polls, vresult>>

\* State of a get_checksum_url call.
VARIABLES
    checksum_url,     \* schema.install.checksum_url
    token_values,     \* what interpolate_tokens puts in place of each token
    manifest_name,    \* what get_checksum_file() returns
    upc,              \* position of the call
    url               \* what get_checksum_url returned

url_vars == <<checksum_url, token_values, manifest_name, upc, url>>

\* State of two detect_version calls that run in one process.
VARIABLES
    calls,            \* call -> its tool, arguments, position and locals
    writes            \* writes of the marker, in order: who wrote which path

two_vars == <<calls, writes>>

\* State of the operations other than detect_version and verify_checksum.
others == <<url_vars, two_vars>>

\* State of the operations other than detect_version.
elsewhere == <<verify_vars, others>>

detect_vars == <<forced_version, env, eco, manager, settings, pc, stack, idx,
                 detected, result, log, env0>>

vars == <<detect_vars, elsewhere>>

\* What a detect_version call reads and never writes.
inputs == <<forced_version, eco, manager, settings, env0, elsewhere>>

\* No verify_checksum call is running.
VerifyOff ==
    /\ download_file = <<>>
    /\ checksum_file = <<>>
    /\ disk = <<>>
    /\ fail_at = 0
    /\ vpc = "off"
    /\ checksum = <<>>
    /\ pos = 0
    /\ polls = 0
    /\ vresult = Pending

\* No get_checksum_url call is running.
UrlOff ==
    /\ checksum_url = None
    /\ token_values = <<>>
    /\ manifest_name = Pending
    /\ upc = "off"
    /\ url = Pending

\* No pair of detect_version calls is running.
TwoOff ==
    /\ calls = <<>>
    /\ writes = <<>>

\* No detect_version call is running.
DetectOff ==
    /\ forced_version = None
    /\ env = <<>>
    /\ env0 = <<>>
    /\ eco = <<>>
    /\ manager = Pending
    /\ settings = Pending
    /\ pc = "off"
    /\ stack = <<>>
    /\ idx = 0
    /\ detected = None
    /\ result = Pending
    /\ log = <<>>

\* Hierarchies of exactly n sources, nearest first.
Hierarchies(n) ==
    { [i \in 1..n |-> ConfigFile(i, n, c[i])] :
          c \in { f \in [1..n -> UNION {ConfigChoices(i) : i \in 1..n}] :
                      \A i \in 1..n : f[i] \in ConfigChoices(i) } }

\* File systems under a hierarchy of n sources.
FileSystems(n) ==
    { [d \in {DirOf(i, n) : i \in 1..n} |-> p[n - Len(d) + 1]] :
          p \in { f \in [1..n -> UNION {ProbeChoices(i, n) : i \in 1..n}] :
                      \A i \in 1..n : f[i] \in ProbeChoices(i, n) } }

Init ==
    /\ forced_version \in ForcedChoices
    /\ \E ev \in EnvChoices, m \in MarkerChoices :
           env = [k \in {VersionVar(tool), DetectedVar} |->
                      IF k = DetectedVar THEN m ELSE ev]
    /\ env0 = env
    /\ \E n \in 0..MaxFiles :
           /\ eco \in FileSystems(n)
           /\ manager \in {Ok([files |-> h]) : h \in Hierarchies(n)}
                             \cup {Err([kind |-> "ConfigManager"])}
    /\ settings \in {Ok([detect_strategy |-> s]) : s \in DetectStrategy}
                       \cup {Err([kind |-> "Config"])}
    /\ pc = "forced"
    /\ stack = <<"detect_version">>
    /\ idx = 0
    /\ detected = None
    /\ result = Pending
    /\ log = <<>>
    /\ VerifyOff
    /\ UrlOff
    /\ TwoOff

-----------------------------------------------------------------------------
(* Helpers of the call *)

\* std::env::var: Ok(value) only for a variable that is set to valid Unicode.
env_var(e, name) ==
    IF e[name].tag = "Str" THEN Ok(e[name].val) ELSE Err(e[name].tag)

\* Variant of set_detected_env_var: the directory is recorded, not the file.
set_detected_env_var_Dir(e, path) == [e EXCEPT ![DetectedVar] = Str(Parent(path))]

\* env::set_var("PROTO_DETECTED_FROM", path)
set_detected_env_var(e, path) == [e EXCEPT ![DetectedVar] = Str(path)]

\* UnresolvedVersionSpec::parse
Parse(s) ==
    CASE s = "1.0" -> Ok(V(1, 0))
      [] s = "2.1" -> Ok(V(2, 1))
      [] OTHER -> Err("invalid version requirement")

\* parse(..).map_err(|error| ProtoError::Semver { version, error })
ParseSession(session_version) ==
    LET parsed == Parse(session_version) IN
    IF parsed.tag = "Ok" THEN parsed
    ELSE Err([kind |-> "Semver", version |-> session_version, error |-> parsed.val])

\* file.config.versions, then versions.get(tool.id)
ConfigVersion(file, t) ==
    LET versions == file.config.versions IN
    IF versions.tag = "Some" /\ t.id \in DOMAIN versions.val
    THEN Some(versions.val[t.id])
    ELSE None

\* tool.detect_version_from(dir)
detect_version_from(dir) == eco[dir]

\* Variant of VersionDetectFailed: the error carries the tool's id.
VersionDetectFailed_Id(t) == Err([kind |-> "VersionDetectFailed", tool |-> t.id])

\* ProtoError::VersionDetectFailed { tool: tool.get_name() }
VersionDetectFailed(t) == Err([kind |-> "VersionDetectFailed", tool |-> t.name])

Files == manager.val.files
Top(s) == s[Len(s)]
Pop(s) == SubSeq(s, 1, Len(s) - 1)
Event(op, i) == [op |-> op, src |-> i]


DetectVersion == "detect_version"
FirstAvailableFn == "detect_version_first_available"
OnlyPrototoolsFn == "detect_version_only_prototools"
PreferPrototoolsFn == "detect_version_prefer_prototools"

Goto(p, s, i, d) ==
    /\ pc' = p
    /\ stack' = s
    /\ idx' = i
    /\ detected' = d

\* The search returns `found` to detect_version (through `?` and the
\* `return Ok(Some(version))` of prefer_prototools when nested).
ReturnToDetect(found) == Goto("ret", <<DetectVersion>>, 0, found)

\* The loop of prefer_prototools over config_manager.files, at position i.
ProbeLoop(s, i) ==
    IF i <= Len(Files)
    THEN Goto("probe", s, i, detected)
    ELSE ReturnToDetect(None)

\* The `for file in &config_manager.files` header of the innermost function,
\* at position i.  An exhausted loop returns Ok(None) to the caller: to
\* prefer_prototools, which goes on to its own loop, or to detect_version.
LoopHeader(s, i) ==
    CASE Top(s) = PreferPrototoolsFn -> ProbeLoop(s, i)
      [] Top(s) = FirstAvailableFn ->
            IF i <= Len(Files) THEN Goto("cfg", s, i, detected)
            ELSE ReturnToDetect(None)
      [] Top(s) = OnlyPrototoolsFn ->
            IF i <= Len(Files) THEN Goto("cfg", s, i, detected)
            ELSE IF Top(Pop(s)) = PreferPrototoolsFn THEN ProbeLoop(Pop(s), 1)
            ELSE ReturnToDetect(None)

\* Variant of Dispatch: the OnlyPrototools arm calls first_available.
Dispatch_OnlyAsFirst(strategy) ==
    CASE strategy = FirstAvailable ->
            LoopHeader(<<DetectVersion, FirstAvailableFn>>, 1)
      [] strategy = PreferPrototools ->
            LoopHeader(<<DetectVersion, PreferPrototoolsFn, OnlyPrototoolsFn>>, 1)
      [] strategy = OnlyPrototools ->
            LoopHeader(<<DetectVersion, FirstAvailableFn>>, 1)

\* Variant of Dispatch: the PreferPrototools arm calls first_available.
Dispatch_PreferAsFirst(strategy) ==
    CASE strategy = FirstAvailable ->
            LoopHeader(<<DetectVersion, FirstAvailableFn>>, 1)
      [] strategy = PreferPrototools ->
            LoopHeader(<<DetectVersion, FirstAvailableFn>>, 1)
      [] strategy = OnlyPrototools ->
            LoopHeader(<<DetectVersion, OnlyPrototoolsFn>>, 1)

\* The match on config.settings.detect_strategy.
Dispatch(strategy) ==
    CASE strategy = FirstAvailable ->
            LoopHeader(<<DetectVersion, FirstAvailableFn>>, 1)
      [] strategy = PreferPrototools ->
            LoopHeader(<<DetectVersion, PreferPrototoolsFn, OnlyPrototoolsFn>>, 1)
      [] strategy = OnlyPrototools ->
            LoopHeader(<<DetectVersion, OnlyPrototoolsFn>>, 1)

\* A failed call: the error reaches the caller of detect_version.
Fail(e) ==
    /\ result' = e
    /\ pc' = "done"
    /\ stack' = <<>>
    /\ idx' = 0
    /\ UNCHANGED detected

-----------------------------------------------------------------------------
(* Steps of detect_version *)

\* Variant of CheckForced: the override is honoured only when the
\* <PREFIX>_VERSION variable has nothing to say.
CheckForced_EnvFirst ==
    /\ pc = "forced"
    /\ LET session_version == env_var(env, VersionVar(tool)) IN
         IF /\ forced_version.tag = "Some"
            /\ ~(session_version.tag = "Ok" /\ session_version.val # "")
         THEN /\ result' = Ok(forced_version.val)
              /\ pc' = "done"
              /\ stack' = <<>>
         ELSE /\ pc' = "env"
              /\ UNCHANGED <<result, stack>>
    /\ UNCHANGED <<inputs, env, idx, detected, log>>

\* if let Some(candidate) = forced_version { return Ok(candidate) }
CheckForced ==
    /\ pc = "forced"
    /\ IF forced_version.tag = "Some"
       THEN /\ result' = Ok(forced_version.val)
            /\ pc' = "done"
            /\ stack' = <<>>
       ELSE /\ pc' = "env"
            /\ UNCHANGED <<result, stack>>
    /\ UNCHANGED <<inputs, env, idx, detected, log>>

\* Variant of ReadEnv: the is_empty() test is missing, so an empty value is
\* parsed like any other.
ReadEnv_NoEmptyCheck ==
    /\ pc = "env"
    /\ LET session_version == env_var(env, VersionVar(tool)) IN
         IF session_version.tag = "Ok"
         THEN /\ result' = ParseSession(session_version.val)
              /\ pc' = "done"
              /\ stack' = <<>>
         ELSE /\ pc' = "load"
              /\ UNCHANGED <<result, stack>>
    /\ log' = Append(log, Event("env", 0))
    /\ UNCHANGED <<inputs, env, idx, detected>>

\* Variant of ReadEnv: a value that does not parse is skipped and the file
\* search goes ahead.
ReadEnv_SkipInvalid ==
    /\ pc = "env"
    /\ LET session_version == env_var(env, VersionVar(tool)) IN
         IF /\ session_version.tag = "Ok" /\ session_version.val # ""
            /\ Parse(session_version.val).tag = "Ok"
         THEN /\ result' = ParseSession(session_version.val)
              /\ pc' = "done"
              /\ stack' = <<>>
         ELSE /\ pc' = "load"
              /\ UNCHANGED <<result, stack>>
    /\ log' = Append(log, Event("env", 0))
    /\ UNCHANGED <<inputs, env, idx, detected>>

\* The <PREFIX>_VERSION stage.
ReadEnv ==
    /\ pc = "env"
    /\ LET session_version == env_var(env, VersionVar(tool)) IN
         IF session_version.tag = "Ok" /\ session_version.val # ""
         THEN /\ result' = ParseSession(session_version.val)
              /\ pc' = "done"
              /\ stack' = <<>>
         ELSE /\ pc' = "load"
              /\ UNCHANGED <<result, stack>>
    /\ log' = Append(log, Event("env", 0))
    /\ UNCHANGED <<inputs, env, idx, detected>>

\* load_config_manager()?, load_config()?, and the strategy dispatch.
LoadConfig ==
    /\ pc = "load"
    /\ IF manager.tag = "Err" THEN Fail(manager)
       ELSE IF settings.tag = "Err" THEN Fail(settings)
       ELSE Dispatch(settings.val.detect_strategy) /\ UNCHANGED result
    /\ log' = Append(log, Event("load", 0))
    /\ UNCHANGED <<inputs, env>>

\* Variant of CheckConfig: the `return` after a hit is missing, so the loop
\* goes on and the last entry of the hierarchy wins.
CheckConfig_LastWins ==
    /\ pc = "cfg"
    /\ LET file == Files[idx]
           version == ConfigVersion(file, tool)
           found == IF version.tag = "Some" THEN version ELSE detected
       IN /\ IF version.tag = "Some"
             THEN /\ env' = set_detected_env_var(env, file.path)
                  /\ log' = log \o <<Event("config", idx), Event("set_var", idx)>>
             ELSE /\ log' = Append(log, Event("config", idx))
                  /\ UNCHANGED env
          /\ IF idx < Len(Files)
             THEN Goto("cfg", stack, idx + 1, found)
             ELSE ReturnToDetect(found)
    /\ UNCHANGED <<inputs, result>>

\* Variant of CheckConfig: first_available asks the probe before it looks at
\* the entry of the source.
CheckConfig_EcosystemFirst ==
    /\ pc = "cfg"
    /\ LET file == Files[idx]
           version == ConfigVersion(file, tool)
           probed == detect_version_from(Parent(file.path))
       IN IF /\ Top(stack) = FirstAvailableFn
             /\ probed.tag = "Ok" /\ probed.val.tag = "Some"
          THEN /\ env' = set_detected_env_var(env, probed.val.val.file)
               /\ log' = log \o <<Event("probe", idx), Event("set_var", idx)>>
               /\ ReturnToDetect(Some(probed.val.val.version))
          ELSE IF version.tag = "Some"
          THEN /\ env' = set_detected_env_var(env, file.path)
               /\ log' = log \o <<Event("config", idx), Event("set_var", idx)>>
               /\ ReturnToDetect(version)
          ELSE /\ log' = Append(log, Event("config", idx))
               /\ UNCHANGED env
               /\ IF Top(stack) = FirstAvailableFn
                  THEN Goto("probe", stack, idx, detected)
                  ELSE LoopHeader(stack, idx + 1)
    /\ UNCHANGED <<inputs, result>>

\* Variant of CheckConfig: first_available moves on to the next source after
\* a miss, without probing the directory.
CheckConfig_NoProbe ==
    /\ pc = "cfg"
    /\ LET file == Files[idx]
           version == ConfigVersion(file, tool)
       IN IF version.tag = "Some"
          THEN /\ env' = set_detected_env_var(env, file.path)
               /\ log' = log \o <<Event("config", idx), Event("set_var", idx)>>
               /\ ReturnToDetect(version)
          ELSE /\ log' = Append(log, Event("config", idx))
               /\ UNCHANGED env
               /\ LoopHeader(stack, idx + 1)
    /\ UNCHANGED <<inputs, result>>

\* The configuration lookup of first_available and only_prototools at
\* source idx.
CheckConfig ==
    /\ pc = "cfg"
    /\ LET file == Files[idx]
           version == ConfigVersion(file, tool)
       IN IF version.tag = "Some"
          THEN /\ env' = set_detected_env_var(env, file.path)
               /\ log' = log \o <<Event("config", idx), Event("set_var", idx)>>
               /\ ReturnToDetect(version)
          ELSE /\ log' = Append(log, Event("config", idx))
               /\ UNCHANGED env
               /\ IF Top(stack) = FirstAvailableFn
                  THEN Goto("probe", stack, idx, detected)
                  ELSE LoopHeader(stack, idx + 1)
    /\ UNCHANGED <<inputs, result>>

\* Variant of ProbeEcosystem: the `return` after a detection is missing, so
\* the loop goes on to the next source.
ProbeEcosystem_NoReturn ==
    /\ pc = "probe"
    /\ LET file == Files[idx]
           dir == Parent(file.path)
           probed == detect_version_from(dir)
       IN /\ log' = log \o <<Event("probe", idx)>>
                        \o (IF probed.tag = "Ok" /\ probed.val.tag = "Some"
                            THEN <<Event("set_var", idx)>> ELSE <<>>)
          /\ IF probed.tag = "Err"
             THEN Fail(probed) /\ UNCHANGED env
             ELSE /\ env' = IF probed.val.tag = "Some"
                            THEN set_detected_env_var(env, probed.val.val.file)
                            ELSE env
                  /\ LoopHeader(stack, idx + 1)
                  /\ UNCHANGED result
    /\ UNCHANGED inputs

\* Variant of ProbeEcosystem: the `?` is missing and a failed probe counts
\* as a directory without an ecosystem file.
ProbeEcosystem_IgnoreError ==
    /\ pc = "probe"
    /\ LET file == Files[idx]
           dir == Parent(file.path)
           probed == detect_version_from(dir)
       IN /\ log' = log \o <<Event("probe", idx)>>
                        \o (IF probed.tag = "Ok" /\ probed.val.tag = "Some"
                            THEN <<Event("set_var", idx)>> ELSE <<>>)
          /\ IF probed.tag = "Ok" /\ probed.val.tag = "Some"
             THEN /\ env' = set_detected_env_var(env, probed.val.val.file)
                  /\ ReturnToDetect(Some(probed.val.val.version))
                  /\ UNCHANGED result
             ELSE /\ LoopHeader(stack, idx + 1)
                  /\ UNCHANGED <<env, result>>
    /\ UNCHANGED inputs

\* The ecosystem probe of first_available and prefer_prototools at the
\* directory of source idx.
ProbeEcosystem ==
    /\ pc = "probe"
    /\ LET file == Files[idx]
           dir == Parent(file.path)
           probed == detect_version_from(dir)
       IN /\ log' = log \o <<Event("probe", idx)>>
                        \o (IF probed.tag = "Ok" /\ probed.val.tag = "Some"
                            THEN <<Event("set_var", idx)>> ELSE <<>>)
          /\ IF probed.tag = "Err"
             THEN Fail(probed) /\ UNCHANGED env
             ELSE IF probed.val.tag = "Some"
             THEN /\ env' = set_detected_env_var(env, probed.val.val.file)
                  /\ ReturnToDetect(Some(probed.val.val.version))
                  /\ UNCHANGED result
             ELSE /\ LoopHeader(stack, idx + 1)
                  /\ UNCHANGED <<env, result>>
    /\ UNCHANGED inputs

\* if let Some(version) = detected_version { return Ok(version) }, else
\* VersionDetectFailed.
Return ==
    /\ pc = "ret"
    /\ result' = IF detected.tag = "Some" THEN Ok(detected.val)
                 ELSE VersionDetectFailed(tool)
    /\ pc' = "done"
    /\ stack' = <<>>
    /\ UNCHANGED <<inputs, env, idx, detected, log>>

Next ==
    \/ CheckForced
    \/ ReadEnv
    \/ LoadConfig
    \/ CheckConfig
    \/ ProbeEcosystem
    \/ Return

Spec == Init /\ [][Next]_vars

Done == pc = "done"

-----------------------------------------------------------------------------
(* verify_checksum: inputs *)

\* Text is a sequence of one-character strings.
Digits == {"a", "b"}

\* Contents a downloaded file may have.
Contents == {"tarball", "zipball"}

\* get_sha256_hash_of_file, on the content read: a fixed-width digest that
\* differs between the two contents.
Sha256(content) ==
    CASE content = "tarball" -> <<"a", "b">>
      [] content = "zipball" -> <<"b", "a">>

Digests == {Sha256(c) : c \in Contents}

\* Base names of downloaded files, and names a manifest may list.
BaseNames == {<<"f">>, <<"g", "f">>}
ListedNames == {<<>>, <<"f">>, <<"g", "f">>, <<"g">>}
Separators == {<<>>, <<" ">>}

\* A line of the manifest as Lines::next yields it: text, or bytes that are
\* not valid UTF-8.
Text(s) == [tag |-> "Text", val |-> s]
Undecodable == [tag |-> "Undecodable", val |-> <<>>]

ManifestLines ==
    {Text(d \o s \o n) : d \in Digests, s \in Separators, n \in ListedNames}
        \cup {Undecodable}

Manifests == UNION {[1..n -> ManifestLines] : n \in 0..MaxLines}

Unreadable == [tag |-> "Unreadable"]
Missing == [tag |-> "Missing"]
Holding(c) == [tag |-> "File", val |-> c]

DownloadDir == <<"t", "m", "p">>
ManifestPath == <<DownloadDir, <<"s", "u", "m", "s">>>>

InitVerify ==
    /\ DetectOff
    /\ UrlOff
    /\ TwoOff
    /\ download_file \in {<<DownloadDir, n>> : n \in BaseNames}
    /\ checksum_file = ManifestPath
    /\ \E d \in {Unreadable} \cup {Holding(c) : c \in Contents},
          m \in {Missing} \cup {Holding(l) : l \in Manifests} :
           /\ disk = [download |-> d, manifest |-> m]
           /\ fail_at \in IF m.tag = "File" THEN 0..(Len(m.val) + 1) ELSE {0}
    /\ vpc = "hash"
    /\ checksum = <<>>
    /\ pos = 0
    /\ polls = 0
    /\ vresult = Pending

-----------------------------------------------------------------------------
(* verify_checksum: helpers *)

\* get_sha256_hash_of_file(download_file)
get_sha256_hash_of_file(path) ==
    IF disk.download.tag = "File"
    THEN Ok(Sha256(disk.download.val))
    ELSE Err([kind |-> "Io", path |-> path])

\* fs::open_file(checksum_file)
open_file(path) ==
    IF disk.manifest.tag = "File"
    THEN Ok(disk.manifest.val)
    ELSE Err([kind |-> "Io", path |-> path])

\* fs::file_name(download_file): the last component of the path.
file_name(path) == path[Len(path)]

\* str::starts_with and str::ends_with
starts_with(s, prefix) ==
    Len(prefix) <= Len(s) /\ SubSeq(s, 1, Len(prefix)) = prefix
ends_with(s, suffix) ==
    Len(suffix) <= Len(s) /\ SubSeq(s, Len(s) - Len(suffix) + 1, Len(s)) = suffix

\* Variant of LineMatches: the bare-digest alternative is missing.
LineMatches_NoBare(line, sum, name) ==
    starts_with(line, sum) /\ ends_with(line, name)

\* The condition of the `if` in the loop.
LineMatches(line, sum, name) ==
    \/ starts_with(line, sum) /\ ends_with(line, name)
    \/ line = sum

\* ProtoError::VerifyInvalidChecksum(download_file, checksum_file)
VerifyInvalidChecksum(download, manifest) ==
    Err([kind |-> "VerifyInvalidChecksum", download |-> download, manifest |-> manifest])

VerifyReturn(r) ==
    /\ vresult' = r
    /\ vpc' = "done"

-----------------------------------------------------------------------------
(* verify_checksum: steps *)

\* Variant of HashDownload: a file that cannot be read hashes to the empty
\* digest and the call goes on.
HashDownload_IgnoresError ==
    /\ vpc = "hash"
    /\ LET hashed == get_sha256_hash_of_file(download_file) IN
         /\ checksum' = IF hashed.tag = "Err" THEN <<>> ELSE hashed.val
         /\ vpc' = "open"
         /\ UNCHANGED vresult
    /\ UNCHANGED <<download_file, checksum_file, disk, fail_at, pos, polls, detect_vars, others>>

\* let checksum = get_sha256_hash_of_file(download_file)?
HashDownload ==
    /\ vpc = "hash"
    /\ LET hashed == get_sha256_hash_of_file(download_file) IN
         IF hashed.tag = "Err"
         THEN VerifyReturn(hashed) /\ UNCHANGED checksum
         ELSE /\ checksum' = hashed.val
              /\ vpc' = "open"
              /\ UNCHANGED vresult
    /\ UNCHANGED <<download_file, checksum_file, disk, fail_at, pos, polls, detect_vars, others>>

\* let file = fs::open_file(checksum_file)?
OpenManifest ==
    /\ vpc = "open"
    /\ LET file == open_file(checksum_file) IN
         IF file.tag = "Err"
         THEN VerifyReturn(file) /\ UNCHANGED pos
         ELSE /\ pos' = 1
              /\ vpc' = "scan"
              /\ UNCHANGED vresult
    /\ UNCHANGED <<download_file, checksum_file, disk, fail_at, checksum, polls, detect_vars, others>>

\* Variant of ScanLine: an exhausted manifest returns Ok(false).
ScanLine_ReturnsFalse ==
    /\ vpc = "scan"
    /\ pos # fail_at
    /\ polls' = polls + 1
    /\ LET lines == disk.manifest.val IN
         IF pos > Len(lines)
         THEN VerifyReturn(Ok(FALSE)) /\ UNCHANGED pos
         ELSE IF lines[pos].tag = "Text"
                 /\ LineMatches(lines[pos].val, checksum, file_name(download_file))
         THEN VerifyReturn(Ok(TRUE)) /\ UNCHANGED pos
         ELSE /\ pos' = pos + 1
              /\ UNCHANGED <<vpc, vresult>>
    /\ UNCHANGED <<download_file, checksum_file, disk, fail_at, checksum, detect_vars, others>>

\* Variant of ScanLine: `line?` instead of flatten(), so a line that does
\* not decode ends the call with the read error.
ScanLine_AbortOnUndecodable ==
    /\ vpc = "scan"
    /\ pos # fail_at
    /\ polls' = polls + 1
    /\ LET lines == disk.manifest.val IN
         IF pos > Len(lines)
         THEN VerifyReturn(VerifyInvalidChecksum(download_file, checksum_file))
              /\ UNCHANGED pos
         ELSE IF lines[pos].tag = "Undecodable"
         THEN VerifyReturn(Err([kind |-> "Io", path |-> checksum_file]))
              /\ UNCHANGED pos
         ELSE IF LineMatches(lines[pos].val, checksum, file_name(download_file))
         THEN VerifyReturn(Ok(TRUE)) /\ UNCHANGED pos
         ELSE /\ pos' = pos + 1
              /\ UNCHANGED <<vpc, vresult>>
    /\ UNCHANGED <<download_file, checksum_file, disk, fail_at, checksum, detect_vars, others>>

\* One turn of `for line in BufReader::new(file).lines().flatten()` in which
\* the read succeeds: a line that does not decode is dropped by flatten(), a
\* decoded line is tested, and the end of the file ends the loop.
ScanLine ==
    /\ vpc = "scan"
    /\ pos # fail_at
    /\ polls' = polls + 1
    /\ LET lines == disk.manifest.val IN
         IF pos > Len(lines)
         THEN VerifyReturn(VerifyInvalidChecksum(download_file, checksum_file))
              /\ UNCHANGED pos
         ELSE IF lines[pos].tag = "Text"
                 /\ LineMatches(lines[pos].val, checksum, file_name(download_file))
         THEN VerifyReturn(Ok(TRUE)) /\ UNCHANGED pos
         ELSE /\ pos' = pos + 1
              /\ UNCHANGED <<vpc, vresult>>
    /\ UNCHANGED <<download_file, checksum_file, disk, fail_at, checksum, detect_vars, others>>

\* One turn in which the read fails: Lines::next returns Some(Err(e)),
\* flatten() drops it and asks again.  Nothing was consumed, so the reader
\* stands where it stood; the next read fails again or goes through.
ReadFails ==
    /\ vpc = "scan"
    /\ pos = fail_at
    /\ polls < MaxPolls
    /\ polls' = polls + 1
    /\ fail_at' \in {fail_at, 0}
    /\ UNCHANGED <<download_file, checksum_file, disk, vpc, checksum, pos, vresult,
                   detect_vars, others>>

NextVerify ==
    \/ HashDownload
    \/ OpenManifest
    \/ ScanLine
    \/ ReadFails

SpecVerify == InitVerify /\ [][NextVerify]_vars

VerifyDone == vpc = "done"

-----------------------------------------------------------------------------
(* get_checksum_url *)

\* The tokens a template may hold; every other element is a character.
CHECKSUM_FILE == "{checksum_file}"
VERSION == "{version}"

\* Templates, values and file names are sequences of tokens and characters.
UrlSymbols == {CHECKSUM_FILE, VERSION, "/"}
Templates == UNION {[1..n -> UrlSymbols] : n \in 0..MaxTemplate}

\* Values interpolate_tokens may put in place of {version}.
TokenValues == {<<"1">>, <<CHECKSUM_FILE>>, <<"1", CHECKSUM_FILE>>}

\* File names get_checksum_file may return.
ManifestNames == {<<"s">>, <<VERSION>>, <<"s", VERSION>>}

InitUrl ==
    /\ DetectOff
    /\ VerifyOff
    /\ TwoOff
    /\ checksum_url \in {None} \cup {Some(s) : s \in Templates}
    /\ token_values \in {[version |-> v] : v \in TokenValues}
    /\ manifest_name \in {Ok(n) : n \in ManifestNames}
                            \cup {Err([kind |-> "ChecksumFile"])}
    /\ upc = "call"
    /\ url = Pending

\* str::replace(from, to): every occurrence of `from`, left to right; what
\* was put in is not searched again.
RECURSIVE replace(_, _, _)
replace(s, from, to) ==
    IF s = <<>> THEN <<>>
    ELSE (IF Head(s) = from THEN to ELSE <<Head(s)>>)
             \o replace(Tail(s), from, to)

\* self.interpolate_tokens(value)
interpolate_tokens(value) == replace(value, VERSION, token_values.version)

\* self.get_checksum_file()
get_checksum_file == manifest_name

\* Variant of get_checksum_url: {checksum_file} is replaced in the template
\* and the tokens of the result are interpolated.
get_checksum_url_ChecksumFileFirst ==
    /\ upc = "call"
    /\ upc' = "done"
    /\ url' = IF checksum_url = None THEN Ok(None)
              ELSE IF get_checksum_file.tag = "Err" THEN get_checksum_file
              ELSE Ok(Some(interpolate_tokens(
                       replace(checksum_url.val, CHECKSUM_FILE,
                               get_checksum_file.val))))
    /\ UNCHANGED <<checksum_url, token_values, manifest_name, detect_vars,
                   verify_vars, two_vars>>

\* fn get_checksum_url(&self) -> Result<Option<String>, ProtoError>
get_checksum_url ==
    /\ upc = "call"
    /\ upc' = "done"
    /\ url' = IF checksum_url = None THEN Ok(None)
              ELSE IF get_checksum_file.tag = "Err" THEN get_checksum_file
              ELSE Ok(Some(replace(interpolate_tokens(checksum_url.val),
                                   CHECKSUM_FILE, get_checksum_file.val)))
    /\ UNCHANGED <<checksum_url, token_values, manifest_name, detect_vars,
                   verify_vars, two_vars>>

NextUrl == get_checksum_url

SpecUrl == InitUrl /\ [][NextUrl]_vars

UrlDone == upc = "done"

-----------------------------------------------------------------------------
(* Two detect_version calls in one process *)

\* The tool of the second call.
other_tool == [id |-> OtherId, name |-> "Deno", env_var_prefix |-> "PROTO_DENO"]

CallIds == {1, 2}
ToolOf(k) == IF k = 1 THEN tool ELSE other_tool

\* The file the probe of a tool reads its version from.
EcosystemFile(t) == IF t.id = tool.id THEN ".nvmrc" ELSE ".dvmrc"

\* What the probe of tool t yields at the directory of source i.
ToolProbeChoices(t, i, n) ==
    { Ok(None),
      Ok(Some([version |-> V(i, IF t.id = tool.id THEN 1 ELSE 6),
               file |-> DirOf(i, n) \o <<EcosystemFile(t)>>])) }

\* File systems under a hierarchy of n sources, as the probe of t sees them.
ToolFileSystems(t, n) ==
    { [d \in {DirOf(i, n) : i \in 1..n} |-> p[n - Len(d) + 1]] :
          p \in { f \in [1..n -> UNION {ToolProbeChoices(t, i, n) : i \in 1..n}] :
                      \A i \in 1..n : f[i] \in ToolProbeChoices(t, i, n) } }

\* A call of detect_version(tool, forced_version) at its entry.
Entered(t, forced, probe) ==
    [tool |-> t, forced_version |-> forced, eco |-> probe,
     pc |-> "forced", stack |-> <<"detect_version">>, idx |-> 0,
     detected |-> None, result |-> Pending]

\* Both calls search the files: neither has an override or a
\* <PREFIX>_VERSION variable.  They share the process environment and the
\* configuration of the working directory.
InitTwo ==
    /\ forced_version = None
    /\ eco = <<>>
    /\ pc = "off"
    /\ stack = <<>>
    /\ idx = 0
    /\ detected = None
    /\ result = Pending
    /\ log = <<>>
    /\ VerifyOff
    /\ UrlOff
    /\ \E m \in MarkerChoices :
           env = [k \in {VersionVar(tool), VersionVar(other_tool), DetectedVar} |->
                      IF k = DetectedVar THEN m ELSE NotPresent]
    /\ env0 = env
    /\ settings \in {Ok([detect_strategy |-> s]) : s \in DetectStrategy}
    /\ \E n \in 0..MaxFiles :
           /\ manager \in {Ok([files |-> h]) : h \in Hierarchies(n)}
           /\ \E p1 \in ToolFileSystems(tool, n), p2 \in ToolFileSystems(other_tool, n) :
                  calls = [k \in CallIds |->
                               Entered(ToolOf(k), None, IF k = 1 THEN p1 ELSE p2)]
    /\ writes = <<>>

\* What a step of a call leaves: the call, the environment, and the path it
\* wrote to the marker, if any.
Outcome(c, e, w) == [call |-> c, env |-> e, wrote |-> w]

At(c, p, s, i, d) == [c EXCEPT !.pc = p, !.stack = s, !.idx = i, !.detected = d]
Returned(c, found) == At(c, "ret", <<DetectVersion>>, 0, found)
Failed(c, e) == [c EXCEPT !.pc = "done", !.stack = <<>>, !.idx = 0, !.result = e]
Finished(c, r) == [c EXCEPT !.pc = "done", !.stack = <<>>, !.result = r]

\* The loop of prefer_prototools over config_manager.files, at position i.
ProbeLoopOf(c, s, i) ==
    IF i <= Len(Files) THEN At(c, "probe", s, i, c.detected) ELSE Returned(c, None)

\* The `for file in &config_manager.files` header of the innermost function.
LoopHeaderOf(c, s, i) ==
    CASE Top(s) = PreferPrototoolsFn -> ProbeLoopOf(c, s, i)
      [] Top(s) = FirstAvailableFn ->
            IF i <= Len(Files) THEN At(c, "cfg", s, i, c.detected)
            ELSE Returned(c, None)
      [] Top(s) = OnlyPrototoolsFn ->
            IF i <= Len(Files) THEN At(c, "cfg", s, i, c.detected)
            ELSE IF Top(Pop(s)) = PreferPrototoolsFn THEN ProbeLoopOf(c, Pop(s), 1)
            ELSE Returned(c, None)

\* The match on config.settings.detect_strategy.
DispatchOf(c, strategy) ==
    CASE strategy = FirstAvailable ->
            LoopHeaderOf(c, <<DetectVersion, FirstAvailableFn>>, 1)
      [] strategy = PreferPrototools ->
            LoopHeaderOf(c, <<DetectVersion, PreferPrototoolsFn, OnlyPrototoolsFn>>, 1)
      [] strategy = OnlyPrototools ->
            LoopHeaderOf(c, <<DetectVersion, OnlyPrototoolsFn>>, 1)

\* if let Some(candidate) = forced_version { return Ok(candidate) }
CheckForcedOf(c, e) ==
    Outcome(IF c.forced_version.tag = "Some"
            THEN Finished(c, Ok(c.forced_version.val))
            ELSE [c EXCEPT !.pc = "env"],
            e, None)

\* The <PREFIX>_VERSION stage.
ReadEnvOf(c, e) ==
    LET session_version == env_var(e, VersionVar(c.tool)) IN
    Outcome(IF session_version.tag = "Ok" /\ session_version.val # ""
            THEN Finished(c, ParseSession(session_version.val))
            ELSE [c EXCEPT !.pc = "load"],
            e, None)

\* load_config_manager()?, load_config()?, and the strategy dispatch.
LoadConfigOf(c, e) ==
    Outcome(IF manager.tag = "Err" THEN Failed(c, manager)
            ELSE IF settings.tag = "Err" THEN Failed(c, settings)
            ELSE DispatchOf(c, settings.val.detect_strategy),
            e, None)

\* The configuration lookup of first_available and only_prototools at
\* source c.idx.
CheckConfigOf(c, e) ==
    LET file == Files[c.idx]
        version == ConfigVersion(file, c.tool)
    IN IF version.tag = "Some"
       THEN Outcome(Returned(c, version),
                    set_detected_env_var(e, file.path), Some(file.path))
       ELSE Outcome(IF Top(c.stack) = FirstAvailableFn
                    THEN At(c, "probe", c.stack, c.idx, c.detected)
                    ELSE LoopHeaderOf(c, c.stack, c.idx + 1),
                    e, None)

\* Variant of ProbeEcosystemOf: a directory is not probed when the marker
\* already names a file in it; the call takes the next source.
ProbeEcosystemOf_TrustsMarker(c, e) ==
    LET file == Files[c.idx]
        dir == Parent(file.path)
        probed == c.eco[dir]
    IN IF e[DetectedVar].tag = "Str" /\ Parent(e[DetectedVar].val) = dir
       THEN Outcome(LoopHeaderOf(c, c.stack, c.idx + 1), e, None)
       ELSE IF probed.tag = "Err" THEN Outcome(Failed(c, probed), e, None)
       ELSE IF probed.val.tag = "Some"
       THEN Outcome(Returned(c, Some(probed.val.val.version)),
                    set_detected_env_var(e, probed.val.val.file),
                    Some(probed.val.val.file))
       ELSE Outcome(LoopHeaderOf(c, c.stack, c.idx + 1), e, None)

\* The ecosystem probe of first_available and prefer_prototools at the
\* directory of source c.idx.
ProbeEcosystemOf(c, e) ==
    LET file == Files[c.idx]
        dir == Parent(file.path)
        probed == c.eco[dir]
    IN IF probed.tag = "Err" THEN Outcome(Failed(c, probed), e, None)
       ELSE IF probed.val.tag = "Some"
       THEN Outcome(Returned(c, Some(probed.val.val.version)),
                    set_detected_env_var(e, probed.val.val.file),
                    Some(probed.val.val.file))
       ELSE Outcome(LoopHeaderOf(c, c.stack, c.idx + 1), e, None)

\* if let Some(version) = detected_version { return Ok(version) }, else
\* VersionDetectFailed.
ReturnOf(c, e) ==
    Outcome(Finished(c, IF c.detected.tag = "Some" THEN Ok(c.detected.val)
                        ELSE VersionDetectFailed(c.tool)),
            e, None)

\* Call k goes on by one step, which leaves o.
Resume(k, o) ==
    /\ calls' = [calls EXCEPT ![k] = o.call]
    /\ env' = o.env
    /\ writes' = IF o.wrote.tag = "Some"
                 THEN Append(writes, [by |-> k, path |-> o.wrote.val])
                 ELSE writes
    /\ UNCHANGED <<forced_version, eco, manager, settings, pc, stack, idx,
                   detected, result, log, env0, verify_vars, url_vars>>

TwoCheckForced ==
    \E k \in CallIds :
        calls[k].pc = "forced" /\ Resume(k, CheckForcedOf(calls[k], env))

TwoReadEnv ==
    \E k \in CallIds :
        calls[k].pc = "env" /\ Resume(k, ReadEnvOf(calls[k], env))

TwoLoadConfig ==
    \E k \in CallIds :
        calls[k].pc = "load" /\ Resume(k, LoadConfigOf(calls[k], env))

TwoCheckConfig ==
    \E k \in CallIds :
        calls[k].pc = "cfg" /\ Resume(k, CheckConfigOf(calls[k], env))

TwoProbeEcosystem ==
    \E k \in CallIds :
        calls[k].pc = "probe" /\ Resume(k, ProbeEcosystemOf(calls[k], env))

TwoReturn ==
    \E k \in CallIds :
        calls[k].pc = "ret" /\ Resume(k, ReturnOf(calls[k], env))

NextTwo ==
    \/ TwoCheckForced
    \/ TwoReadEnv
    \/ TwoLoadConfig
    \/ TwoCheckConfig
    \/ TwoProbeEcosystem
    \/ TwoReturn

SpecTwo == InitTwo /\ [][NextTwo]_vars

-----------------------------------------------------------------------------
(* Vocabulary of the properties, stated over the inputs of the call *)

\* The value of <PREFIX>_VERSION seen by the call.
SessionValue == env0[VersionVar(tool)]

\* The variable holds the non-empty string s.
SessionIs(s) == SessionValue = Str(s) /\ s # ""

\* The variable is unset, unreadable as a string, or empty.
SessionEmpty == SessionValue.tag # "Str" \/ SessionValue.val = ""

NoOverride == forced_version = None

\* The call got as far as the strategy dispatch.
SearchRuns ==
    /\ NoOverride
    /\ SessionEmpty
    /\ manager.tag = "Ok"
    /\ settings.tag = "Ok"

Strategy == settings.val.detect_strategy

Sources == 1..Len(Files)

\* Source i has a config entry for the tool.
HasEntry(i) ==
    LET versions == Files[i].config.versions IN
    versions.tag = "Some" /\ tool.id \in DOMAIN versions.val

EntryOf(i) == Files[i].config.versions.val[tool.id]

\* The probe outcome at the directory of source i.
ProbeAt(i) == eco[DirOf(i, Len(Files))]
ProbeYields(i) == ProbeAt(i).tag = "Ok" /\ ProbeAt(i).val.tag = "Some"
ProbeFails(i) == ProbeAt(i).tag = "Err"
ProbeVersion(i) == ProbeAt(i).val.val.version
ProbeFile(i) == ProbeAt(i).val.val.file

\* Least element of a non-empty set of sources: the nearest one.
Nearest(S) == CHOOSE i \in S : \A j \in S : i <= j

Logged(op) == {k \in 1..Len(log) : log[k].op = op}
Probed == Logged("probe") # {}
Looked == Logged("config") # {}
Loaded == Logged("load") # {}
Examined(i) == \E k \in 1..Len(log) : log[k].src = i

\* The marker of the process.
Marker == env[DetectedVar]
MarkerWritten == Logged("set_var") # {}

-----------------------------------------------------------------------------
(* Properties *)

\* C1: whatever the strategy, the environment variable, the hierarchy and the
\* file system, a call with an override returns exactly the override and
\* never invokes the ecosystem probe.
C1_OverrideWins ==
    forced_version.tag = "Some" =>
        /\ ~Probed
        /\ Done => result = Ok(forced_version.val)

\* A finished call with an override, while the variable holds another
\* version and the nearest source has both an entry and an ecosystem file.
C1_Witness ==
    /\ Done
    /\ forced_version = Some(V(9, 9))
    /\ SessionIs("2.1")
    /\ manager.tag = "Ok" /\ settings.tag = "Ok"
    /\ Len(Files) >= 1 /\ HasEntry(1) /\ ProbeYields(1)
    /\ result = Ok(V(9, 9))

\* C2: without an override, a non-empty parseable <PREFIX>_VERSION is
\* returned parsed, whatever config entries and ecosystem files exist, and the
\* hierarchy search is never started; an unset or empty variable yields
\* nothing, the search is started, and the variable has no part in the result.
C2_EnvWins ==
    NoOverride =>
        /\ \A s \in EnvStrings :
               (SessionIs(s) /\ Parse(s).tag = "Ok") =>
                   /\ ~Loaded /\ ~Looked /\ ~Probed
                   /\ pc \notin {"load", "cfg", "probe", "ret"}
                   /\ Done => result = Ok(Parse(s).val)
        /\ SessionEmpty =>
               /\ pc \notin {"forced", "env"} => (pc = "load" \/ Loaded)
               /\ Done => /\ result.tag = "Err" => result.val.kind # "Semver"
                          /\ manager.tag = "Err" => result = manager
                          /\ (manager.tag = "Ok" /\ settings.tag = "Err") =>
                                 result = settings
                          /\ SearchRuns =>
                                 \/ result = VersionDetectFailed(tool) /\ ~MarkerWritten
                                 \/ result.tag = "Err" /\ result.val.kind = "Probe"
                                 \/ /\ result.tag = "Ok"
                                    /\ \E i \in Sources :
                                         \/ HasEntry(i) /\ result.val = EntryOf(i)
                                         \/ ProbeYields(i) /\ result.val = ProbeVersion(i)

\* The variable wins over a nearest source that has both an entry and an
\* ecosystem file.
C2_Witness ==
    /\ Done
    /\ NoOverride
    /\ SessionIs("2.1")
    /\ manager.tag = "Ok" /\ settings.tag = "Ok"
    /\ Len(Files) >= 1 /\ HasEntry(1) /\ ProbeYields(1)
    /\ result = Ok(V(2, 1))

\* C3: without an override, a non-empty <PREFIX>_VERSION that does not parse
\* makes the call fail with ProtoError::Semver carrying the literal string;
\* the file search is not entered: nothing is loaded, looked up or probed.
C3_EnvParseError ==
    NoOverride =>
        \A s \in EnvStrings :
            (SessionIs(s) /\ Parse(s).tag = "Err") =>
                /\ ~Loaded /\ ~Looked /\ ~Probed
                /\ pc \notin {"load", "cfg", "probe", "ret"}
                /\ Done => /\ result.tag = "Err"
                           /\ result.val.kind = "Semver"
                           /\ result.val.version = s

\* The parse error is raised although the nearest source pins the tool.
C3_Witness ==
    /\ Done
    /\ NoOverride
    /\ SessionIs("not-a-version!!")
    /\ manager.tag = "Ok" /\ settings.tag = "Ok"
    /\ Len(Files) >= 1 /\ HasEntry(1)
    /\ result.tag = "Err"
    /\ result.val.kind = "Semver"

\* Sources with a config entry, sources whose probe yields a version, and
\* sources without an entry whose probe fails.
WithEntry == {i \in Sources : HasEntry(i)}
WithEcosystem == {i \in Sources : ProbeYields(i)}
Yielding == WithEntry \cup WithEcosystem
FailingProbe == {i \in Sources : ~HasEntry(i) /\ ProbeFails(i)}

\* C4: under only-prototools no execution invokes the probe, not even when
\* no source pins the tool and the call fails; the result of the search is the
\* entry of the nearest source that has one.
C4_OnlyPrototoolsNeverProbes ==
    (settings.tag = "Ok" /\ Strategy = OnlyPrototools) =>
        /\ ~Probed
        /\ (Done /\ SearchRuns) =>
               IF WithEntry # {}
               THEN result = Ok(EntryOf(Nearest(WithEntry)))
               ELSE result = VersionDetectFailed(tool)

\* Only-prototools passes over a nearer ecosystem file and returns the entry
\* of the farther source.
C4_Witness ==
    /\ Done /\ SearchRuns /\ Strategy = OnlyPrototools
    /\ Len(Files) = 2
    /\ ~HasEntry(1) /\ ProbeYields(1) /\ HasEntry(2)
    /\ result = Ok(EntryOf(2))
    /\ ~Probed

\* C5: under first-available the result is taken from the nearest source at
\* which the config entry or the probe yields a value (the entry if there is
\* one, else the probed version), and no farther source is examined; so a
\* nearer source with only an ecosystem file wins over a farther entry.
C5_FirstAvailableNearestWins ==
    (SearchRuns /\ Strategy = FirstAvailable) =>
        /\ \A j \in Sources :
               (Yielding # {} /\ j > Nearest(Yielding)) => ~Examined(j)
        /\ Done =>
               IF Yielding # {} /\ \A h \in FailingProbe : h > Nearest(Yielding)
               THEN LET k == Nearest(Yielding) IN
                    result = Ok(IF HasEntry(k) THEN EntryOf(k) ELSE ProbeVersion(k))
               ELSE result.tag = "Err"
        /\ \A i, j \in Sources :
               ( /\ i < j
                 /\ ~HasEntry(i) /\ ProbeYields(i) /\ HasEntry(j)
                 /\ \A h \in 1..(i - 1) : ~HasEntry(h) /\ ProbeAt(h) = Ok(None) ) =>
                   /\ ~Examined(j)
                   /\ Done => result = Ok(ProbeVersion(i))

\* The nearer source has only an ecosystem file, the farther one an entry.
C5_Witness ==
    /\ Done /\ SearchRuns /\ Strategy = FirstAvailable
    /\ Len(Files) = 2
    /\ ~HasEntry(1) /\ ProbeYields(1) /\ HasEntry(2)
    /\ result = Ok(ProbeVersion(1))
    /\ ~Examined(2)

\* C6: under prefer-prototools, if any source has an entry the result is the
\* entry of the nearest such source and nothing is probed, even when a nearer
\* directory holds an ecosystem file; an ecosystem version is returned only
\* when no source of the hierarchy has an entry.
C6_PreferPrototoolsConfigFirst ==
    (SearchRuns /\ Strategy = PreferPrototools) =>
        /\ Probed => WithEntry = {}
        /\ Done =>
               IF WithEntry # {}
               THEN result = Ok(EntryOf(Nearest(WithEntry)))
               ELSE result.tag = "Ok" =>
                        \E i \in WithEcosystem : result = Ok(ProbeVersion(i))

\* The farther entry wins over the nearer ecosystem file.
C6_Witness ==
    /\ Done /\ SearchRuns /\ Strategy = PreferPrototools
    /\ Len(Files) = 2
    /\ ~HasEntry(1) /\ ProbeYields(1) /\ HasEntry(2)
    /\ result = Ok(EntryOf(2))

\* A finished call whose version was found by the hierarchy search.
FoundBySearch == Done /\ SearchRuns /\ result.tag = "Ok" /\ MarkerWritten

\* The source at which the search stopped: the one of the last marker write.
ResultSource == log[Len(log)].src

\* The values the strategy permits source i to yield.
Permitted(i) ==
    IF Strategy = OnlyPrototools THEN HasEntry(i) ELSE HasEntry(i) \/ ProbeYields(i)

\* C7 as stated: under each strategy the version found by the search comes
\* from the nearest source that yields any value the strategy permits.
C7_NearestAlwaysWins ==
    FoundBySearch =>
        /\ Permitted(ResultSource)
        /\ \A j \in Sources : (j < ResultSource) => ~Permitted(j)

\* C7, amended: under first-available and only-prototools the version comes
\* from the nearest source that yields a permitted value; under
\* prefer-prototools it comes from the nearest source with a config entry when
\* any source has one, and else from the nearest source whose probe yields one.
C7_NearestWithinPass ==
    (Done /\ SearchRuns /\ result.tag = "Ok") =>
        /\ MarkerWritten
        /\ LET k == ResultSource IN
           /\ k \in Sources
           /\ Permitted(k)
           /\ result = Ok(IF HasEntry(k) THEN EntryOf(k) ELSE ProbeVersion(k))
           /\ IF Strategy = PreferPrototools
              THEN IF WithEntry # {}
                   THEN HasEntry(k) /\ \A j \in WithEntry : k <= j
                   ELSE \A j \in WithEcosystem : k <= j
              ELSE \A j \in Sources : (j < k) => ~Permitted(j)

\* Both sources hold only an ecosystem file and prefer-prototools returns
\* the nearer one.
C7_Witness ==
    /\ FoundBySearch /\ Strategy = PreferPrototools
    /\ Len(Files) = 2
    /\ WithEntry = {} /\ ProbeYields(1) /\ ProbeYields(2)
    /\ ResultSource = 1
    /\ result = Ok(ProbeVersion(1))

\* C8: under first-available and prefer-prototools a source that has an
\* entry is never probed, and when the source the version was taken from has
\* both an entry and an ecosystem file, the version is the entry.
C8_EntryBeforeEcosystem ==
    (SearchRuns /\ Strategy \in {FirstAvailable, PreferPrototools}) =>
        /\ \A e \in Logged("probe") : ~HasEntry(log[e].src)
        /\ FoundBySearch =>
               LET k == ResultSource IN
               (k \in Sources /\ HasEntry(k) /\ ProbeYields(k)) =>
                   /\ result = Ok(EntryOf(k))
                   /\ result # Ok(ProbeVersion(k))
                   /\ Marker = Str(Files[k].path)

\* First-available stops at a nearest source that has both.
C8_Witness ==
    /\ FoundBySearch /\ Strategy = FirstAvailable
    /\ HasEntry(1) /\ ProbeYields(1)
    /\ ResultSource = 1
    /\ result = Ok(EntryOf(1))

\* No stage yields a value: no override, nothing in the variable, and a
\* search that runs to the end of the hierarchy without a value or an error.
NothingFound ==
    /\ SearchRuns
    /\ WithEntry = {}
    /\ \/ Strategy = OnlyPrototools
       \/ \A i \in Sources : ProbeAt(i) = Ok(None)

DetectFailed == Err([kind |-> "VersionDetectFailed", tool |-> tool.name])

\* C9: the call fails with VersionDetectFailed carrying the tool's name
\* exactly when no stage yields a value, in particular whenever the hierarchy
\* is empty; in every other case it returns a version or another error.
C9_DetectFailedIffNothingFound ==
    Done =>
        /\ result = DetectFailed <=> NothingFound
        /\ (result.tag = "Err" /\ result.val.kind = "VersionDetectFailed") =>
               result.val.tool = "Node.js"
        /\ (SearchRuns /\ Len(Files) = 0) => result = DetectFailed
        /\ ~NothingFound =>
               \/ result.tag = "Ok"
               \/ /\ result.tag = "Err"
                  /\ result.val.kind \in {"Semver", "ConfigManager", "Config", "Probe"}

\* The hierarchy is empty and neither an override nor the variable is given.
C9_Witness ==
    /\ Done /\ SearchRuns
    /\ Len(Files) = 0
    /\ result = DetectFailed

\* C10 as stated: every successful call, whichever source answered, has
\* written the originating path to the marker by the time it returns.
C10_EverySuccessRecords ==
    (Done /\ result.tag = "Ok") => MarkerWritten

\* C10, amended: a successful call answered by a config entry has recorded
\* that config file's path, one answered by the probe has recorded the file
\* the probe returned; a call answered by the override or by the variable
\* writes nothing and leaves the marker as it was.
C10_MarkerRecordsFileSource ==
    (Done /\ result.tag = "Ok") =>
        IF SearchRuns
        THEN /\ Cardinality(Logged("set_var")) = 1
             /\ \E k \in Sources :
                  \/ /\ HasEntry(k)
                     /\ result = Ok(EntryOf(k))
                     /\ Marker = Str(DirOf(k, Len(Files)) \o <<".prototools">>)
                  \/ /\ ProbeYields(k)
                     /\ result = Ok(ProbeVersion(k))
                     /\ Marker = Str(ProbeFile(k))
        ELSE /\ ~MarkerWritten
             /\ Marker = env0[DetectedVar]

\* An ecosystem detection overwrites a marker left by an earlier resolution.
C10_Witness ==
    /\ FoundBySearch
    /\ env0[DetectedVar] = Str(StalePath)
    /\ ~HasEntry(1) /\ ProbeYields(1)
    /\ result = Ok(ProbeVersion(1))
    /\ Marker = Str(ProbeFile(1))

\* Positions of the log at which a source was examined.
Exams == Logged("config") \cup Logged("probe")

\* C17: the search is sequential and short-circuiting.  Lookups and probes
\* each visit the sources in the order of config_manager.files, one after the
\* other and each at most once, and nothing follows the write that records a
\* found value.  Under first-available a directory is probed only after the
\* lookup at its source missed and every earlier source yielded nothing.
\* Under prefer-prototools the first probe comes only after the config of
\* every source was looked up and none had an entry.
C17_SequentialShortCircuit ==
    SearchRuns =>
        /\ \A k \in Logged("set_var") : k = Len(log)
        /\ \A k \in Exams :
               /\ log[k].src \in Sources
               /\ \A h \in 1..(log[k].src - 1) :
                      \E a \in 1..(k - 1) : log[a] = Event(log[k].op, h)
               /\ \A a \in 1..(k - 1) :
                      (a \in Exams /\ log[a].op = log[k].op) => log[a].src < log[k].src
        /\ Strategy = FirstAvailable =>
               /\ \A a, b \in Exams : (a < b) => log[a].src <= log[b].src
               /\ \A k \in Logged("probe") :
                      /\ k > 1 /\ log[k - 1] = Event("config", log[k].src)
                      /\ ~HasEntry(log[k].src)
                      /\ \A h \in 1..(log[k].src - 1) :
                             ~HasEntry(h) /\ ProbeAt(h) = Ok(None)
        /\ Strategy = PreferPrototools =>
               \A k \in Logged("probe") :
                   /\ WithEntry = {}
                   /\ \A i \in Sources :
                          \E a \in 1..(k - 1) : log[a] = Event("config", i)
        /\ Strategy = OnlyPrototools => ~Probed

\* Prefer-prototools looks up both sources, then probes both directories in
\* the same order and stops at the second.
C17_Witness ==
    /\ Done /\ SearchRuns /\ Strategy = PreferPrototools
    /\ Len(Files) = 2
    /\ log = <<Event("env", 0), Event("load", 0),
               Event("config", 1), Event("config", 2),
               Event("probe", 1), Event("probe", 2), Event("set_var", 2)>>

\* C19: a probe error ends the call at once with that error, unmodified;
\* no later source is examined, not even a farther one that has an entry under
\* first-available; and every failing call (parse error, loader error, probe
\* error, VersionDetectFailed) leaves the environment, and so the marker, as
\* it was.
C19_ErrorsLeaveMarker ==
    /\ (Done /\ result.tag = "Err") => (env = env0 /\ ~MarkerWritten)
    /\ SearchRuns =>
        /\ \A k \in Logged("probe") :
               ProbeFails(log[k].src) =>
                   /\ k = Len(log)
                   /\ Done
                   /\ result = ProbeAt(log[k].src)
        /\ (Done /\ result.tag = "Err" /\ result.val.kind = "Probe") =>
               /\ Len(log) > 0
               /\ log[Len(log)].op = "probe"
               /\ result = ProbeAt(log[Len(log)].src)
        /\ Strategy = FirstAvailable =>
               \A i, j \in Sources :
                   ( /\ i < j
                     /\ ~HasEntry(i) /\ ProbeFails(i) /\ HasEntry(j)
                     /\ \A h \in 1..(i - 1) : ~HasEntry(h) /\ ProbeAt(h) = Ok(None) ) =>
                       /\ ~Examined(j)
                       /\ Done => result = ProbeAt(i)

\* Under first-available the probe fails at the nearer source while the
\* farther source has an entry; a stale marker stays.
C19_Witness ==
    /\ Done /\ SearchRuns /\ Strategy = FirstAvailable
    /\ Len(Files) = 2
    /\ ~HasEntry(1) /\ ProbeFails(1) /\ HasEntry(2)
    /\ result = ProbeAt(1)
    /\ env0[DetectedVar] = Str(StalePath)
    /\ Marker = Str(StalePath)

-----------------------------------------------------------------------------
(* Vocabulary of the verify_checksum properties *)

BothReadable == disk.download.tag = "File" /\ disk.manifest.tag = "File"

\* The lines of the manifest, the digest of the downloaded file and its
\* base name.
Lines == disk.manifest.val
Digest == Sha256(disk.download.val)
BaseName == download_file[Len(download_file)]

\* Line i decodes, and begins with the digest and ends with the base name,
\* or is the digest itself.
Accepted(i) ==
    /\ Lines[i].tag = "Text"
    /\ LET l == Lines[i].val IN
       \/ /\ Len(l) >= Len(Digest)
          /\ \A k \in 1..Len(Digest) : l[k] = Digest[k]
          /\ Len(l) >= Len(BaseName)
          /\ \A k \in 1..Len(BaseName) : l[Len(l) - Len(BaseName) + k] = BaseName[k]
       \/ l = Digest

AcceptedLines == {i \in 1..Len(Lines) : Accepted(i)}

Mismatch ==
    Err([kind |-> "VerifyInvalidChecksum",
         download |-> download_file, manifest |-> checksum_file])

\* C11: a finished verification returned Ok(true) exactly when some
\* decodable line begins with the digest and ends with the base name, or is
\* the digest alone (whatever the base name); the scan stopped at the first
\* such line.
C11_TrueIffAcceptedLine ==
    (VerifyDone /\ BothReadable) =>
        /\ vresult = Ok(TRUE) <=> AcceptedLines # {}
        /\ (\E i \in 1..Len(Lines) : Lines[i] = Text(Digest)) => vresult = Ok(TRUE)
        /\ vresult = Ok(TRUE) =>
               /\ pos \in AcceptedLines
               /\ \A i \in AcceptedLines : pos <= i

\* The second line is `digest name` after a line for another digest; a
\* further matching line follows when the manifest is longer.
C11_Witness ==
    /\ VerifyDone /\ BothReadable
    /\ Len(Lines) >= 2
    /\ Lines[1] = Text(<<"b", "a", " ", "f">>)
    /\ Lines[2] = Text(<<"a", "b", " ", "f">>)
    /\ Digest = <<"a", "b">>
    /\ BaseName = <<"f">>
    /\ pos = 2
    /\ vresult = Ok(TRUE)

\* C12: with both files readable, a verification that finds no matching
\* line, in particular in an empty manifest, fails with
\* VerifyInvalidChecksum carrying the downloaded file's path and the
\* manifest's path; no execution returns Ok(false).
C12_MismatchIsAnError ==
    /\ vresult # Ok(FALSE)
    /\ (VerifyDone /\ BothReadable /\ AcceptedLines = {}) =>
           /\ vresult = Mismatch
           /\ vresult.val.download = <<DownloadDir, BaseName>>
           /\ vresult.val.manifest = ManifestPath
    /\ (VerifyDone /\ BothReadable /\ Len(Lines) = 0) => vresult = Mismatch

\* The manifest lists only the other digest.
C12_Witness ==
    /\ VerifyDone /\ BothReadable
    /\ Digest = <<"a", "b">>
    /\ Lines = <<Text(<<"b", "a">>)>>
    /\ vresult = Mismatch

\* The manifest without the lines that do not decode.
Decoded == SelectSeq(Lines, LAMBDA l : l.tag = "Text")

\* What verification returns for a manifest all of whose lines decode.
OutcomeOf(lines) ==
    IF \E i \in 1..Len(lines) : LineMatches(lines[i].val, Digest, BaseName)
    THEN Ok(TRUE)
    ELSE Mismatch

\* C13: a line that does not decode is skipped and the scan goes on: the
\* outcome is the outcome for the manifest without those lines, so such a line
\* before a matching line still gives success, and a manifest of such lines
\* alone gives no match.
C13_UndecodableSkipped ==
    (VerifyDone /\ BothReadable) =>
        /\ vresult = OutcomeOf(Decoded)
        /\ (\A i \in 1..Len(Lines) : Lines[i] = Undecodable) => vresult = Mismatch
        /\ ( /\ Len(Lines) >= 2
             /\ Lines[1] = Undecodable
             /\ Lines[2] = Text(Digest \o <<" ">> \o BaseName) ) => vresult = Ok(TRUE)

\* An undecodable line, then the matching line.
C13_Witness ==
    /\ VerifyDone /\ BothReadable
    /\ Len(Lines) = 2
    /\ Lines[1] = Undecodable
    /\ Lines[2] = Text(Digest \o <<" ">> \o BaseName)
    /\ pos = 2
    /\ vresult = Ok(TRUE)

\* C14: a downloaded file that cannot be read, or a manifest that cannot be
\* opened, ends the call with an I/O error naming that path, never with
\* VerifyInvalidChecksum or Ok(true); the file is hashed first, so when it
\* cannot be read the manifest is never opened, whatever it holds.
C14_IoErrorsAreDistinct ==
    /\ disk.download.tag # "File" =>
           /\ vpc \in {"hash", "done"}
           /\ pos = 0 /\ polls = 0
           /\ VerifyDone => vresult = Err([kind |-> "Io", path |-> download_file])
    /\ (disk.download.tag = "File" /\ disk.manifest.tag # "File") =>
           /\ vpc # "scan"
           /\ polls = 0
           /\ VerifyDone => vresult = Err([kind |-> "Io", path |-> checksum_file])
    /\ (VerifyDone /\ ~BothReadable) =>
           /\ vresult.tag = "Err"
           /\ vresult.val.kind # "VerifyInvalidChecksum"
    /\ vpc \in {"open", "scan"} => checksum = Digest

\* The downloaded file cannot be read while the manifest holds a bare
\* digest line.
C14_Witness ==
    /\ VerifyDone
    /\ disk.download = Unreadable
    /\ disk.manifest = Holding(<<Text(<<"a", "b">>)>>)
    /\ vresult = Err([kind |-> "Io", path |-> download_file])

\* Whitespace between the digest and the file name of a manifest line.
Whitespace == Separators \ {<<>>}

\* Line i has one of the two shapes `<checksum>` and `<checksum>  <file>`.
Shaped(i) ==
    /\ Lines[i].tag = "Text"
    /\ \/ Lines[i].val = Digest
       \/ \E w \in Whitespace : Lines[i].val = Digest \o w \o BaseName

\* C16 as stated: verification succeeds only if some line of the manifest is
\* the digest alone, or the digest, whitespace and exactly the base name of
\* the downloaded file.
C16_OnlyTwoShapes ==
    (VerifyDone /\ vresult = Ok(TRUE)) => \E i \in 1..Len(Lines) : Shaped(i)

\* C20 as stated: each line of the manifest is read at most once, so a scan
\* makes no more reads than the manifest has lines, plus the one that finds
\* its end; a read that fails is not made again.
C20_EachLineReadOnce ==
    (vpc \in {"scan", "done"} /\ BothReadable) => polls <= Len(Lines) + 1

-----------------------------------------------------------------------------
(* Properties of get_checksum_url *)

\* The template, and the file name, of a call that has both.
Template == checksum_url.val
ManifestName == manifest_name.val
Templated == checksum_url # None /\ manifest_name.tag = "Ok"

\* The sequences of a sequence, joined.
RECURSIVE Concat(_)
Concat(ss) == IF ss = <<>> THEN <<>> ELSE Head(ss) \o Concat(Tail(ss))

\* What the returned URL holds in place of one element of a value, and of one
\* element of the template.
InValue(c) == IF c = CHECKSUM_FILE THEN ManifestName ELSE <<c>>
InUrl(c) ==
    IF c = CHECKSUM_FILE THEN ManifestName
    ELSE IF c = VERSION
    THEN Concat([i \in 1..Len(token_values.version) |->
                     InValue(token_values.version[i])])
    ELSE <<c>>

\* C15 as stated: the returned URL is the template with {checksum_file}
\* replaced first and the remaining tokens interpolated afterwards; without a
\* template the call returns none.
C15_ChecksumFileFirst ==
    UrlDone =>
        /\ checksum_url = None => url = Ok(None)
        /\ Templated =>
               url = Ok(Some(interpolate_tokens(
                                 replace(Template, CHECKSUM_FILE, ManifestName))))

\* C15: the returned URL is the template with its tokens interpolated first
\* and {checksum_file} replaced afterwards, in the interpolated values too:
\* {checksum_file} becomes the file name as it is, {version} becomes its value
\* with the file name in place of each {checksum_file} in it.  Without a
\* template the call returns none; with one, an error of get_checksum_file is
\* the error of the call.
C15_InterpolateThenChecksumFile ==
    UrlDone =>
        /\ checksum_url = None => url = Ok(None)
        /\ (checksum_url # None /\ manifest_name.tag = "Err") =>
               url = manifest_name
        /\ Templated =>
               url = Ok(Some(Concat([i \in 1..Len(Template) |->
                                         InUrl(Template[i])])))

\* The file name holds a token, which the returned URL keeps.
C15_Witness ==
    /\ UrlDone
    /\ checksum_url = Some(<<"/", CHECKSUM_FILE>>)
    /\ manifest_name = Ok(<<"s", VERSION>>)
    /\ token_values.version = <<"1">>
    /\ url = Ok(Some(<<"/", "s", VERSION>>))

-----------------------------------------------------------------------------
(* Properties of two calls in one process *)

\* The step a call is about to take.
StepOf(c, e) ==
    CASE c.pc = "forced" -> CheckForcedOf(c, e)
      [] c.pc = "env" -> ReadEnvOf(c, e)
      [] c.pc = "load" -> LoadConfigOf(c, e)
      [] c.pc = "cfg" -> CheckConfigOf(c, e)
      [] c.pc = "probe" -> ProbeEcosystemOf(c, e)
      [] c.pc = "ret" -> ReturnOf(c, e)

\* The call c run to its end with nothing else running, from environment e;
\* w is the path it wrote last.
RECURSIVE Alone(_, _, _)
Alone(c, e, w) ==
    IF c.pc = "done" THEN Outcome(c, e, w)
    ELSE LET o == StepOf(c, e) IN
         Alone(o.call, o.env, IF o.wrote.tag = "Some" THEN o.wrote ELSE w)

\* Call k as the only call of the process, from the environment both began in.
Solo(k) == Alone(Entered(calls[k].tool, calls[k].forced_version, calls[k].eco),
                 env0, None)

WritesOf(k) == {i \in 1..Len(writes) : writes[i].by = k}
TwoDone == \A k \in CallIds : calls[k].pc = "done"

\* The file p is a source that gives tool t the version v: a configuration
\* file of the hierarchy that pins it, or the file its probe read it from.
SourceOf(k, p, v) ==
    \/ \E j \in 1..Len(Files) :
          Files[j].path = p /\ ConfigVersion(Files[j], calls[k].tool) = Some(v)
    \/ \E d \in DOMAIN calls[k].eco :
          calls[k].eco[d] = Ok(Some([version |-> v, file |-> p]))

\* C18: of two interleaved calls each returns what it returns when it runs
\* alone, and writes the marker at most once, the path of the source its
\* version came from; the marker holds the path written last, so the source
\* path of one of the two calls, and its first value while neither has written.
C18_InterleavedCallsIndependent ==
    calls # <<>> =>
        /\ \A k \in CallIds :
               /\ calls[k].pc = "done" => calls[k].result = Solo(k).call.result
               /\ Cardinality(WritesOf(k)) <= 1
               /\ \A i \in WritesOf(k) :
                      /\ Solo(k).wrote = Some(writes[i].path)
                      /\ calls[k].pc = "done" =>
                             /\ calls[k].result.tag = "Ok"
                             /\ SourceOf(k, writes[i].path, calls[k].result.val)
               /\ (calls[k].pc = "done" /\ calls[k].result.tag = "Ok") =>
                      WritesOf(k) # {}
        /\ env[DetectedVar] = IF writes = <<>> THEN env0[DetectedVar]
                              ELSE Str(writes[Len(writes)].path)

\* The second call wrote first and the first call last, from different
\* files: the marker names the first call's source.
C18_Witness ==
    /\ calls # <<>>
    /\ TwoDone
    /\ Len(writes) = 2
    /\ writes[1].by = 2 /\ writes[2].by = 1
    /\ writes[1].path # writes[2].path
    /\ env[DetectedVar] = Str(writes[2].path)
    /\ calls[1].result = Ok(V(1, 1))
    /\ calls[2].result = Ok(V(2, 5))

====
